---- MODULE Spec2Model ----
(***************************************************************************)
(* Weighted bottom-up tree automaton of src/main.rs: the transition table  *)
(* (Transition), the automaton (TreeAutomation) and its best-derivation    *)
(* search find_path, a Dijkstra-style loop over unary and binary arcs.     *)
(*                                                                         *)
(* Rc<TreeNode> values are modelled as indices into the arena `nodes`, so  *)
(* that Rc::ptr_eq is equality of indices.  Weights are usize; the model's *)
(* weights stay far below 2^64, so no addition overflows.                  *)
(***************************************************************************)
EXTENDS Integers, Sequences, FiniteSets, TLC

\* ---------------------------------------------------------------- bounds
NumStates == 2          \* State values are 0 .. NumStates-1
MaxWeight == 2          \* starting weights are 0 .. MaxWeight
MaxInit == 3            \* at most MaxInit calls of add_initial_state
MaxArcs == 1            \* at most MaxArcs calls of add_transition
MaxRuns == 2            \* at most MaxRuns calls of find_path

State == 0 .. (NumStates - 1)
Weights == 0 .. MaxWeight

\* Option::None, for Option<State>, Option<S>, Option<Rc<TreeNode>> and for
\* an absent HashMap key.  States are >= 0, symbols and node indices >= 1.
None == 0 - 1

\* The alphabet S.  The repository has no implementation of SymbolTrait; a
\* symbol is one of two values, of weight 0 and 1.
SymbolWeights == <<0, 1>>
Symbol == 1 .. Len(SymbolWeights)
weight(symbol) == SymbolWeights[symbol]

VARIABLES
    items,        \* Transition.items: for each State the Vec of (Option<State>, S, State)
    start_state,  \* TreeAutomation.start_state: Vec<(State, usize)>
    final_state,  \* TreeAutomation.final_state: Option<State>
    added,        \* history: the add_transition calls made, in order
    pc,           \* "config" | "seed" | "loop" | "done": where find_path stands
    seed_i,       \* index of the next start_state element of the seeding loop
    nodes,        \* arena of the TreeNode values allocated by this run
    heap,         \* the BinaryHeap: set of node indices
    used_node,    \* find_path's used_node: State -> node index, or None
    result,       \* how find_path ended: [kind, node]
    finalized,    \* history: nodes popped and not skipped, in order
    pushes,       \* history: number of heap.push calls of this run
    runs,         \* number of find_path calls so far
    prev          \* history: outcome of the previous find_path call

vars == <<items, start_state, final_state, added, pc, seed_i, nodes, heap,
          used_node, result, finalized, pushes, runs, prev>>

config == <<items, start_state, final_state, added>>
search == <<pc, seed_i, nodes, heap, used_node, result, finalized, pushes, runs, prev>>

NoResult == [kind |-> "running", node |-> None]

\* what the caller sees of a call: how it ended and the weight of the node returned
Outcome(r, ns) ==
    [kind |-> r.kind, weight |-> IF r.kind = "Some" THEN ns[r.node].weight ELSE None]

\* --------------------------------------------------------- Transition
\* StatePair::Single(state) / StatePair::Pair(state1, state2)
Single(state) == <<state>>
Pair(state1, state2) == <<state1, state2>>

Entry(near, symbol, next) == [near |-> near, symbol |-> symbol, next |-> next]

\* Transition::new
TransitionNew == [s \in State |-> <<>>]

\* Transition::add, the Pair arm: both entries are pushed under state1, the
\* second one with state1 itself as the partner.
AddPairEntries(table, symbol, state1, state2, end) ==
    LET first == [table EXCEPT ![state1] = Append(@, Entry(state2, symbol, end))]
    IN  [first EXCEPT ![state1] = Append(@, Entry(state1, symbol, end))]

\* Transition::add
TransitionAdd(table, symbol, start, end) ==
    IF Len(start) = 1
    THEN [table EXCEPT ![start[1]] = Append(@, Entry(None, symbol, end))]
    ELSE AddPairEntries(table, symbol, start[1], start[2], end)

UsableUnfiltered(entry, used) == TRUE

\* the filter closure of transition_list
Usable(entry, used) ==
    IF entry.near # None THEN used[entry.near] # None ELSE TRUE

\* Transition::transition_list
transition_list(table, from, used) ==
    SelectSeq(table[from], LAMBDA entry : Usable(entry, used))

\* ------------------------------------------------------- TreeAutomation
TreeNode(state, first_child, second_child, symbol, w) ==
    [state |-> state, first_child |-> first_child, second_child |-> second_child,
     symbol |-> symbol, weight |-> w]

Init ==
    /\ items = TransitionNew
    /\ start_state = <<>>
    /\ final_state = None
    /\ added = <<>>
    /\ pc = "config"
    /\ seed_i = 1
    /\ nodes = <<>>
    /\ heap = {}
    /\ used_node = [s \in State |-> None]
    /\ result = NoResult
    /\ finalized = <<>>
    /\ pushes = 0
    /\ runs = 0
    /\ prev = Outcome(NoResult, <<>>)

\* TreeAutomation::add_transition with StatePair::Single
AddTransitionSingle ==
    /\ pc = "config"
    /\ Len(added) < MaxArcs
    /\ \E symbol \in Symbol, state \in State, end \in State :
         /\ items' = TransitionAdd(items, symbol, Single(state), end)
         /\ added' = Append(added, [symbol |-> symbol, start |-> Single(state), end |-> end])
    /\ UNCHANGED <<start_state, final_state, search>>

\* TreeAutomation::add_transition with StatePair::Pair
AddTransitionPair ==
    /\ pc = "config"
    /\ Len(added) < MaxArcs
    /\ \E symbol \in Symbol, state1 \in State, state2 \in State, end \in State :
         /\ items' = TransitionAdd(items, symbol, Pair(state1, state2), end)
         /\ added' = Append(added, [symbol |-> symbol, start |-> Pair(state1, state2), end |-> end])
    /\ UNCHANGED <<start_state, final_state, search>>

\* TreeAutomation::set_final_state
set_final_state ==
    /\ pc = "config"
    /\ \E f \in State : final_state' = f
    /\ UNCHANGED <<items, start_state, added, search>>

\* TreeAutomation::add_initial_state
add_initial_state ==
    /\ pc = "config"
    /\ Len(start_state) < MaxInit
    /\ \E start \in State, w \in Weights : start_state' = Append(start_state, <<start, w>>)
    /\ UNCHANGED <<items, final_state, added, search>>

\* find_path is called: the heap and used_node are created empty.
FindPathCall ==
    /\ pc \in {"config", "done"}
    /\ runs < MaxRuns
    /\ pc' = "seed"
    /\ seed_i' = 1
    /\ nodes' = <<>>
    /\ heap' = {}
    /\ used_node' = [s \in State |-> None]
    /\ prev' = Outcome(result, nodes)
    /\ result' = NoResult
    /\ finalized' = <<>>
    /\ pushes' = 0
    /\ runs' = runs + 1
    /\ UNCHANGED config

SeedStepPushOnly ==
    /\ pc = "seed"
    /\ seed_i <= Len(start_state)
    /\ nodes' = Append(nodes, TreeNode(start_state[seed_i][1], None, None, None,
                                       start_state[seed_i][2]))
    /\ heap' = heap \cup {Len(nodes) + 1}
    /\ pushes' = pushes + 1
    /\ seed_i' = seed_i + 1
    /\ UNCHANGED <<config, pc, used_node, result, finalized, runs, prev>>

\* one iteration of the seeding loop over start_state
SeedStep ==
    /\ pc = "seed"
    /\ seed_i <= Len(start_state)
    /\ LET state == start_state[seed_i][1]
           cost == start_state[seed_i][2]
           id == Len(nodes) + 1
       IN  /\ nodes' = Append(nodes, TreeNode(state, None, None, None, cost))
           /\ used_node' = [used_node EXCEPT ![state] = id]
           /\ heap' = heap \cup {id}
    /\ pushes' = pushes + 1
    /\ seed_i' = seed_i + 1
    /\ UNCHANGED <<config, pc, result, finalized, runs, prev>>

\* the seeding loop is over; the while loop starts
SeedDone ==
    /\ pc = "seed"
    /\ seed_i > Len(start_state)
    /\ pc' = "loop"
    /\ UNCHANGED <<config, seed_i, nodes, heap, used_node, result, finalized, pushes, runs, prev>>

\* ---------------------------------------------------------- the frontier
\* impl Ord for TreeNode: cmp(self, other) is other.weight.cmp(&self.weight);
\* the result is -1 (Less), 0 (Equal) or 1 (Greater).
NodeCmpUnreversed(self, other) ==
    IF self.weight < other.weight THEN 0 - 1
    ELSE IF self.weight = other.weight THEN 0
    ELSE 1

NodeCmpSelf(self, other) ==
    IF other.weight < other.weight THEN 0 - 1
    ELSE IF other.weight = other.weight THEN 0
    ELSE 1

NodeCmp(self, other) ==
    IF other.weight < self.weight THEN 0 - 1
    ELSE IF other.weight = self.weight THEN 0
    ELSE 1

\* BinaryHeap::pop returns a greatest element of the heap under Ord; which of
\* several equal ones is not specified, so every one of them may come out.
HeapPop(h, ns) == {id \in h : \A o \in h : NodeCmp(ns[id], ns[o]) >= 0}

\* Rc::ptr_eq(&item, used_node.get(&item.state).unwrap())
PtrEq(item, used, ns) == used[ns[item].state] = item

\* the test of line 143: a popped node that passes it is skipped (continue)
Skipped(item, used, ns) == PtrEq(item, used, ns)

IsFinalInverted(node, final) == node.state # final

\* item.state == self.final_state.unwrap()
IsFinal(node, final) == node.state = final

BinaryWeightNoNeighbor(item_weight, neighbor_weight, symbol) ==
    item_weight + weight(symbol)

\* weight of the candidate of a binary entry (lines 162-164)
BinaryWeight(item_weight, neighbor_weight, symbol) ==
    item_weight + neighbor_weight + weight(symbol)

\* weight of the candidate of a unary entry (line 172)
UnaryWeight(item_weight, symbol) == item_weight + weight(symbol)

\* used_node.get(&new_ref.state).map_or(0, |item| item.weight)
BestKnownWeight(state, used, ns) ==
    IF used[state] = None THEN 0 ELSE ns[used[state]].weight

RelaxesOrEqual(new_weight, state, used, ns) ==
    new_weight <= BestKnownWeight(state, used, ns)

\* the test of line 175
Relaxes(new_weight, state, used, ns) == new_weight < BestKnownWeight(state, used, ns)

\* the node built at lines 156-174 for one entry of the usable list
NewRef(entry, item, st) ==
    IF entry.near # None
    THEN TreeNode(entry.next, item, st.used[entry.near], entry.symbol,
                  BinaryWeight(st.nodes[item].weight, st.nodes[st.used[entry.near]].weight,
                               entry.symbol))
    ELSE TreeNode(entry.next, item, None, entry.symbol,
                  UnaryWeight(st.nodes[item].weight, entry.symbol))

\* one iteration of the for loop of lines 151-179; st.panic records a failed
\* unwrap of used_node.get(&neighbor)
RelaxOne(entry, item, st) ==
    IF st.panic THEN st
    ELSE IF entry.near # None /\ st.used[entry.near] = None THEN [st EXCEPT !.panic = TRUE]
    ELSE LET new_ref == NewRef(entry, item, st)
             id == Len(st.nodes) + 1
             ns == Append(st.nodes, new_ref)
         IN  IF Relaxes(new_ref.weight, new_ref.state, st.used, st.nodes)
             THEN [st EXCEPT !.nodes = ns,
                             !.used = [st.used EXCEPT ![new_ref.state] = id],
                             !.heap = st.heap \cup {id},
                             !.pushes = st.pushes + 1]
             ELSE [st EXCEPT !.nodes = ns]

\* the for loop of lines 151-179 over the list transition_list returned
RECURSIVE Expand(_, _, _, _)
Expand(list, k, item, st) ==
    IF k > Len(list) THEN st
    ELSE Expand(list, k + 1, item, RelaxOne(list[k], item, st))

\* ------------------------------------------------------------ find_path
\* while let Some(item) = heap.pop(): the popped node is the best-known node
\* of its state and is skipped
PopSkip ==
    /\ pc = "loop"
    /\ \E item \in HeapPop(heap, nodes) :
         /\ used_node[nodes[item].state] # None
         /\ Skipped(item, used_node, nodes)
         /\ heap' = heap \ {item}
    /\ UNCHANGED <<config, pc, seed_i, nodes, used_node, result, finalized, pushes, runs, prev>>

\* the popped node is not skipped and an unwrap fails: used_node has no entry
\* for its state (line 143) or no final state is set (line 147)
PopPanic ==
    /\ pc = "loop"
    /\ \E item \in HeapPop(heap, nodes) :
         /\ IF used_node[nodes[item].state] = None
            THEN TRUE
            ELSE ~Skipped(item, used_node, nodes) /\ final_state = None
         /\ heap' = heap \ {item}
         /\ finalized' = IF used_node[nodes[item].state] = None
                         THEN finalized ELSE Append(finalized, item)
         /\ result' = [kind |-> "panic", node |-> None]
    /\ pc' = "done"
    /\ UNCHANGED <<config, seed_i, nodes, used_node, pushes, runs, prev>>

\* the popped node is not skipped and is a node of the final state: return Some(item)
PopReturn ==
    /\ pc = "loop"
    /\ \E item \in HeapPop(heap, nodes) :
         /\ used_node[nodes[item].state] # None
         /\ ~Skipped(item, used_node, nodes)
         /\ final_state # None
         /\ IsFinal(nodes[item], final_state)
         /\ heap' = heap \ {item}
         /\ finalized' = Append(finalized, item)
         /\ result' = [kind |-> "Some", node |-> item]
    /\ pc' = "done"
    /\ UNCHANGED <<config, seed_i, nodes, used_node, pushes, runs, prev>>

\* the popped node is not skipped and is not of the final state: the for
\* loop over its usable entries runs
PopExpand ==
    /\ pc = "loop"
    /\ \E item \in HeapPop(heap, nodes) :
         /\ used_node[nodes[item].state] # None
         /\ ~Skipped(item, used_node, nodes)
         /\ final_state # None
         /\ ~IsFinal(nodes[item], final_state)
         /\ LET list == transition_list(items, nodes[item].state, used_node)
                st0 == [nodes |-> nodes, used |-> used_node, heap |-> heap \ {item},
                        pushes |-> pushes, panic |-> FALSE]
                st == Expand(list, 1, item, st0)
            IN  /\ nodes' = st.nodes
                /\ used_node' = st.used
                /\ heap' = st.heap
                /\ pushes' = st.pushes
                /\ pc' = IF st.panic THEN "done" ELSE "loop"
                /\ result' = IF st.panic THEN [kind |-> "panic", node |-> None] ELSE result
         /\ finalized' = Append(finalized, item)
    /\ UNCHANGED <<config, seed_i, runs, prev>>

\* heap.pop() returns None: the loop ends and find_path returns None
Exhausted ==
    /\ pc = "loop"
    /\ heap = {}
    /\ pc' = "done"
    /\ result' = [kind |-> "None", node |-> None]
    /\ UNCHANGED <<config, seed_i, nodes, heap, used_node, finalized, pushes, runs, prev>>

FindPathStep ==
    \/ SeedStep
    \/ SeedDone
    \/ PopSkip
    \/ PopPanic
    \/ PopReturn
    \/ PopExpand
    \/ Exhausted

Next ==
    \/ AddTransitionSingle
    \/ AddTransitionPair
    \/ set_final_state
    \/ add_initial_state
    \/ FindPathCall
    \/ FindPathStep

Spec == Init /\ [][Next]_vars

\* find_path is a synchronous call: once entered it runs to its end
FairSpec == Init /\ [][Next]_vars /\ WF_vars(FindPathStep)

\* ------------------------------------------------ derivations of a state
\* The finite derivations of the automaton as it was declared: a leaf is a
\* declared initial state with its starting weight, an inner node applies a
\* registered unary or binary hyperarc to derivations of its operands.
\* Weights of derivations, with None for "no derivation".
WPlus(x, y) == IF x = None \/ y = None THEN None ELSE x + y
WMin(x, y) == IF x = None THEN y ELSE IF y = None THEN x ELSE IF x < y THEN x ELSE y

RECURSIVE LeafWeight(_, _)
LeafWeight(s, k) ==
    IF k > Len(start_state) THEN None
    ELSE WMin(IF start_state[k][1] = s THEN start_state[k][2] ELSE None,
              LeafWeight(s, k + 1))

ArcWeight(arc, D) ==
    IF Len(arc.start) = 1
    THEN WPlus(D[arc.start[1]], weight(arc.symbol))
    ELSE WPlus(WPlus(D[arc.start[1]], D[arc.start[2]]), weight(arc.symbol))

RECURSIVE ArcsInto(_, _, _)
ArcsInto(t, D, k) ==
    IF k > Len(added) THEN None
    ELSE WMin(IF added[k].end = t THEN ArcWeight(added[k], D) ELSE None,
              ArcsInto(t, D, k + 1))

\* one more level of derivation height
DeriveStep(D) == [t \in State |-> WMin(D[t], ArcsInto(t, D, 1))]

RECURSIVE DeriveFix(_)
DeriveFix(D) == LET E == DeriveStep(D) IN IF E = D THEN D ELSE DeriveFix(E)

\* minimum weight of a finite derivation of each state, None when there is none
MinDerivation == DeriveFix([s \in State |-> LeafWeight(s, 1)])

Done == pc = "done"
Returned == Done /\ result.kind = "Some"
NoDerivation == Done /\ result.kind = "None"
Panicked == Done /\ result.kind = "panic"

\* the states finalized so far in this run
FinalizedStates == {nodes[finalized[k]].state : k \in 1 .. Len(finalized)}

\* ------------------------------------------------------------- claims
\* C1: whenever find_path returns a derivation node for a designated final
\* state, the node's weight is the minimum weight over all finite accepting
\* derivations of the final state.
C1_Optimality ==
    (Returned /\ final_state # None)
        => nodes[result.node].weight = MinDerivation[final_state]

\* C2: if the designated final state has a finite derivation, find_path
\* returns Some node rooted at the final state.
C2_Completeness ==
    (Done /\ final_state # None /\ MinDerivation[final_state] # None)
        => (result.kind = "Some" /\ nodes[result.node].state = final_state)

\* C3: every candidate node created for a binary hyperarc has both operand
\* states finalized (popped and accepted) in this run.
C3_BinaryGating ==
    \A id \in 1 .. Len(nodes) :
        nodes[id].second_child # None
            => /\ nodes[nodes[id].first_child].state \in FinalizedStates
               /\ nodes[nodes[id].second_child].state \in FinalizedStates

\* C4: after add(symbol, Pair(a, b), target) the table holds one entry keyed
\* by a with partner b and one keyed by b with partner a, same symbol and target.
HasEntry(key, near, symbol, next) ==
    \E k \in 1 .. Len(items[key]) : items[key][k] = Entry(near, symbol, next)

C4_SymmetricIndexing ==
    \A k \in 1 .. Len(added) :
        Len(added[k].start) = 2
            => /\ HasEntry(added[k].start[1], added[k].start[2], added[k].symbol, added[k].end)
               /\ HasEntry(added[k].start[2], added[k].start[1], added[k].symbol, added[k].end)

\* C5: the weights of the nodes finalized (popped and not skipped) in one
\* run are non-decreasing in the order of finalization.
C5_MonotonicFinalization ==
    \A j \in 1 .. Len(finalized) : \A k \in j .. Len(finalized) :
        nodes[finalized[j]].weight <= nodes[finalized[k]].weight

\* two nodes of different weight were finalized in this run
C5_Witness ==
    /\ Len(finalized) >= 2
    /\ nodes[finalized[1]].weight < nodes[finalized[Len(finalized)]].weight

\* C6: with a designated final state that has no derivation, find_path ends
\* by exhausting the frontier and returns None: no node, no panic.
C6_UnreachableFinal ==
    (Done /\ final_state # None /\ MinDerivation[final_state] = None)
        => (result.kind = "None" /\ heap = {})

\* None was returned for an underivable final state after a node of another
\* state was finalized and expanded
C6_Witness ==
    /\ NoDerivation
    /\ final_state # None
    /\ MinDerivation[final_state] = None
    /\ Len(finalized) > 0
    /\ Len(nodes) > Len(start_state)

\* number of heap.pop calls that returned a node
Pops == pushes - Cardinality(heap)

\* C7: find_path on an automaton without a final state is rejected as an
\* error before any node is popped; it never returns normally.
C7_ConfigurationError ==
    (Done /\ final_state = None) => (result.kind = "panic" /\ Pops = 0)

RECURSIVE SumWeights(_)
SumWeights(k) == IF k = 0 THEN 0 ELSE start_state[k][2] + SumWeights(k - 1)

\* every push after the seeding lowers the best-known weight of a seeded state
PushBound == Len(start_state) + SumWeights(Len(start_state))

ReturnedFinal ==
    /\ result.kind = "Some"
    /\ final_state # None
    /\ nodes[result.node].state = final_state
    /\ Len(finalized) > 0
    /\ finalized[Len(finalized)] = result.node

FrontierExhausted == result.kind = "None" /\ heap = {}

\* the unwrap of line 147 on an automaton without final state
PanickedOnFinal == result.kind = "panic" /\ final_state = None /\ Len(finalized) > 0

C10_NodeWeight ==
    \A id \in 1 .. Len(nodes) :
        LET n == nodes[id] IN
        IF n.symbol = None
        THEN /\ n.first_child = None
             /\ n.second_child = None
             /\ id <= Len(start_state)
             /\ start_state[id] = <<n.state, n.weight>>
        ELSE /\ n.first_child # None
             /\ n.weight = weight(n.symbol) + nodes[n.first_child].weight
                           + (IF n.second_child = None THEN 0
                              ELSE nodes[n.second_child].weight)

\* a binary candidate with a child of positive weight is the best-known node
\* of its state and waits in the frontier
C10_Witness ==
    \E id \in heap :
        /\ nodes[id].second_child # None
        /\ nodes[nodes[id].second_child].weight > 0
        /\ used_node[nodes[id].state] = id

\* the nodes heap.pop() took out in a step of the while loop
Popped == heap \ heap'

\* C11: a popped node that is not the best-known node of its state is
\* discarded (not finalized, returned or expanded); a popped node is
\* finalized only when it is the best-known node of its state.
C11_LazyDeletion ==
    [][pc = "loop" =>
         \A item \in Popped :
            IF used_node[nodes[item].state] # item
            THEN /\ finalized' = finalized
                 /\ nodes' = nodes
                 /\ used_node' = used_node
                 /\ result' = result
            ELSE finalized' = Append(finalized, item)]_vars

\* the candidates created by a step, in the order of their creation
NewNodes == (Len(nodes) + 1) .. Len(nodes')

\* the best-known node of state s just before candidate k of this step was
\* relaxed: the last candidate before k that was pushed for s, else the entry
\* the step started with
BestBefore(k, s) ==
    LET earlier == {j \in NewNodes : j < k /\ j \in heap' /\ nodes'[j].state = s}
    IN  IF earlier = {} THEN used_node[s]
        ELSE CHOOSE j \in earlier : \A i \in earlier : i <= j

\* C12: a candidate is installed as best-known and pushed iff its target has
\* no best-known entry or the candidate is strictly lighter than the entry.
C12_RelaxationRule ==
    [][pc = "loop" =>
         /\ \A k \in NewNodes :
               LET best == BestBefore(k, nodes'[k].state)
               IN  (k \in heap') <=>
                       (best = None \/ nodes'[k].weight < nodes'[best].weight)
         /\ \A s \in State : used_node'[s] = BestBefore(Len(nodes') + 1, s)]_vars

\* C13: in one run each state is finalized at most once, and once a state
\* is finalized its best-known entry is not replaced.
C13_FinalizationPermanent ==
    /\ [](\A j \in 1 .. Len(finalized) : \A k \in 1 .. Len(finalized) :
             nodes[finalized[j]].state = nodes[finalized[k]].state => j = k)
    /\ [][pc = "loop" =>
            \A s \in FinalizedStates : used_node'[s] = used_node[s]]_vars

\* node n applies the registered hyperarc arc: same symbol and target, and
\* the children's states are the arc's operand states
Applies(n, arc) ==
    /\ arc.symbol = n.symbol
    /\ arc.end = n.state
    /\ IF Len(arc.start) = 1
       THEN /\ n.second_child = None
            /\ nodes[n.first_child].state = arc.start[1]
       ELSE /\ n.second_child # None
            /\ \/ /\ nodes[n.first_child].state = arc.start[1]
                  /\ nodes[n.second_child].state = arc.start[2]
               \/ /\ nodes[n.first_child].state = arc.start[2]
                  /\ nodes[n.second_child].state = arc.start[1]

\* C14: every candidate node applies a registered hyperarc to children of
\* exactly the arc's operand states, the first child being a finalized node.
C14_DerivationSoundness ==
    \A id \in 1 .. Len(nodes) :
        nodes[id].symbol # None
            => /\ \E k \in 1 .. Len(added) : Applies(nodes[id], added[k])
               /\ \E j \in 1 .. Len(finalized) : finalized[j] = nodes[id].first_child

\* the positions of the entries registered under `from` that are unary or
\* whose partner is a key of used_node
UsablePositions(from) ==
    {k \in 1 .. Len(items[from]) :
        items[from][k].near = None \/ used_node[items[from][k].near] # None}

\* C15: transition_list returns exactly the entries registered under the
\* state that are unary or whose partner is a key of the map, in registration
\* order; no entries gives the empty list; the table is not changed.
C15_UsableArcLookup ==
    /\ [](\A from \in State :
            LET list == transition_list(items, from, used_node)
                at == UsablePositions(from)
            IN  /\ Len(list) = Cardinality(at)
                /\ \A k \in at : list[Cardinality({j \in at : j <= k})] = items[from][k]
                /\ (items[from] = <<>> => list = <<>>))
    /\ [][pc # "config" => items' = items]_vars

\* the lookup for the node just expanded kept one entry and dropped another
C15_Witness ==
    /\ pc = "loop"
    /\ Len(finalized) > 0
    /\ Len(nodes) > Len(start_state)
    /\ LET from == nodes[finalized[Len(finalized)]].state
           list == transition_list(items, from, used_node)
       IN  0 < Len(list) /\ Len(list) < Len(items[from])

\* C16: every node in the frontier has a best-known entry for its state and
\* every partner that passes the usable-arc filter has one, so that no
\* lookup of used_node fails: the only panic is final_state.unwrap().
C16_FrontierConsistency ==
    /\ \A id \in heap : used_node[nodes[id].state] # None
    /\ \A from \in State :
          LET list == transition_list(items, from, used_node)
          IN  \A k \in 1 .. Len(list) :
                 list[k].near # None => used_node[list[k].near] # None
    /\ result.kind = "panic" => (final_state = None /\ Len(finalized) > 0)

\* a binary candidate, built from a partner's entry, waits in the frontier
\* beside a seed
C16_Witness ==
    /\ pc = "loop"
    /\ \E id \in heap : nodes[id].second_child # None
    /\ \E id \in heap : nodes[id].symbol = None

\* C17: during one run, seeding included, every replacement of the
\* best-known entry of a state strictly lowers its weight.
C17_BestKnownImproves ==
    [][(pc = "seed" \/ pc = "loop") =>
         \A s \in State :
            (used_node[s] # None /\ used_node'[s] # used_node[s])
                => (used_node'[s] # None
                    /\ nodes'[used_node'[s]].weight < nodes[used_node[s]].weight)]_vars

====
